---- MODULE Spec2Model ----
(***************************************************************************)
(* A model of algorithms/graph/src/lib.rs: a directed, weighted graph of   *)
(* shared nodes (Rc<RefCell<Node<T>>>), its depth-first and breadth-first  *)
(* traversals, the breadth-first search, the depth-first topological sort  *)
(* and the naive Dijkstra (dijkstra_find with find_closest_node).          *)
(*                                                                         *)
(* A node is identified by its name: every map and set of the algorithms   *)
(* (seen, marked, costs, processed) is keyed by NodeName, and the graphs   *)
(* built here give every node its own name.  An Option<X> is the empty     *)
(* sequence (None) or a one-element sequence (Some(x)).                    *)
(***************************************************************************)
EXTENDS Integers, Sequences, FiniteSets, TLC

VARIABLES
  data,             \* name -> Node.data of every node created by Node::new
  edges,            \* name -> Node.edges, a sequence of <<target name, weight>>
  pc,               \* where the program is
  root,             \* Option: the node the running algorithm was started at
  seen,             \* the HashSet<NodeName> handed to a traversal
  calls,            \* the nodes the visitor `act` was invoked with, in order
  frames,           \* the recursion stack of traverse_depth_first / visit
  stack,            \* traverse_breadth_first's VecDeque<Edge<T>>
  res,              \* Option: the ActResult of the visitor's last invocation
  caller,           \* which function runs traverse_breadth_first
  target,           \* breadth_first_search's target name
  found,            \* breadth_first_search's captured Option<T>
  marked,           \* depth_first_topological_sort's marked: name -> permanent?
  sorted,           \* depth_first_topological_sort's sorted VecDeque
  processed,        \* dijkstra_find's processed set
  costs,            \* dijkstra_find's costs map; its keys are those of the
                    \* nodes map, whose value at a name is the node so named
  parents,          \* dijkstra_find's parents map: name -> Option<name>
  closest,          \* Option: the node dijkstra_find is relaxing the edges of
  cost,             \* dijkstra_find's local `cost` of the closest node
  idx,              \* the position of dijkstra_find's `for edge in edges`
  new_cost,         \* Option: the last cost + edge.1, as the exact integer sum
  overflow_checks   \* the build dijkstra_find runs in: TRUE panics on a u8
                    \* overflow (debug), FALSE wraps modulo 256 (release)

vars == <<data, edges, pc, root, seen, calls, frames, stack, res, caller,
          target, found, marked, sorted, processed, costs, parents, closest,
          cost, idx, new_cost, overflow_checks>>

graph == <<data, edges>>
dfsVars == <<frames>>
bfsVars == <<stack, res, caller, target, found>>
topoVars == <<marked, sorted>>
dijkstraVars == <<processed, costs, parents, closest, cost, idx, new_cost>>

(***************************************************************************)
(* Bounds of the model and the program's constants.                        *)
(***************************************************************************)
\* The graphs built have at most this many edges in all.
MaxEdges == 3

\* Weight::MAX of type Weight = u8, and the number of u8 values.
WeightMax == 255
WeightModulus == 256

\* The names nodes are created with ("" is a &'static str like any other):
\* those of the traversals and the sort, of the searches, of the Dijkstra runs.
NodeNames == {"R", "A", "B", "C"}
SearchNames == {"R", "A", "F"}
DijkstraNames == {"R", "A", ""}
\* The names breadth_first_search is asked for: every node name and one more.
TargetNames == SearchNames \cup {"Press F"}
\* The payloads of the nodes a search runs over, and the one payload of the
\* graphs whose algorithm never reads Node.data.
Payloads == {6, 7}
NoPayload == {0}
\* The weights of the edges the print_edge traversal is given, the one
\* weight of the graphs whose algorithm never reads edge.1, and the weights
\* of a Dijkstra run.
TraversalWeights == {0, 9}
OneWeight == {1}
DijkstraWeights == {0, 1, 255}

None == <<>>
Some(x) == <<x>>
Unwrap(o) == o[1]

(***************************************************************************)
(* Graph Model: Node::new and Node::add_edge.                              *)
(***************************************************************************)
Nodes == DOMAIN edges

RECURSIVE SumLen(_)
SumLen(S) ==
  IF S = {} THEN 0
  ELSE LET n == CHOOSE x \in S : TRUE IN Len(edges[n]) + SumLen(S \ {n})

TotalEdges == SumLen(Nodes)

\* Node::new(name, data): a node with no edges.
new(name, d) ==
  /\ pc = "build"
  /\ name \notin Nodes
  /\ data' = data @@ (name :> d)
  /\ edges' = edges @@ (name :> <<>>)
  /\ UNCHANGED <<pc, root, seen, calls, dfsVars, bfsVars, topoVars,
                 dijkstraVars, overflow_checks>>

\* Node::add_edge(node, weight): self.edges.push((node, weight)).
add_edge(self, node, weight) ==
  /\ pc = "build"
  /\ self \in Nodes
  /\ node \in Nodes
  /\ TotalEdges < MaxEdges
  /\ edges' = [edges EXCEPT ![self] = Append(@, <<node, weight>>)]
  /\ UNCHANGED <<data, pc, root, seen, calls, dfsVars, bfsVars, topoVars,
                 dijkstraVars, overflow_checks>>

Build(N, P, W) ==
  \/ \E name \in N, d \in P : new(name, d)
  \/ \E self \in Nodes, node \in Nodes, weight \in W : add_edge(self, node, weight)

\* The state before any node is created.  overflow_checks is set when
\* dijkstra_find is entered.
Init ==
  /\ data = <<>>
  /\ edges = <<>>
  /\ pc = "build"
  /\ root = None
  /\ seen = {}
  /\ calls = <<>>
  /\ frames = <<>>
  /\ stack = <<>>
  /\ res = None
  /\ caller = ""
  /\ target = ""
  /\ found = None
  /\ marked = <<>>
  /\ sorted = <<>>
  /\ processed = {}
  /\ costs = <<>>
  /\ parents = <<>>
  /\ closest = None
  /\ cost = 0
  /\ idx = 0
  /\ new_cost = None
  /\ overflow_checks = FALSE

(***************************************************************************)
(* Node::traverse_depth_first.  A frame <<name, i>> is one activation of   *)
(* the method on the node `name`: i = 0 before its body has run, and       *)
(* otherwise i is the position in self.edges the for loop is at.           *)
(***************************************************************************)
Top == frames[Len(frames)]
Pop == SubSeq(frames, 1, Len(frames) - 1)
SetTop(i) == [frames EXCEPT ![Len(frames)] = <<Top[1], i>>]

\* The visited node is not put in seen.
DfsMarkSeenForgotten(s, name) == s

\* seen.insert(self.name)
DfsMarkSeen(s, name) == s \cup {name}

\* root.borrow().traverse_depth_first(&print_node, &mut HashSet::new())
DfsStart ==
  /\ pc = "build"
  /\ \E r \in Nodes :
       /\ root' = Some(r)
       /\ frames' = <<<<r, 0>>>>
  /\ pc' = "dfs"
  /\ seen' = {}
  /\ calls' = <<>>
  /\ UNCHANGED <<graph, bfsVars, topoVars, dijkstraVars, overflow_checks>>

\* Lines 43-47: return on a seen node, otherwise act(self) and mark it.
DfsEnter ==
  /\ pc = "dfs"
  /\ Top[2] = 0
  /\ IF Top[1] \in seen
       THEN /\ frames' = Pop
            /\ pc' = IF Len(frames) = 1 THEN "done" ELSE "dfs"
            /\ UNCHANGED <<seen, calls>>
       ELSE /\ calls' = Append(calls, Top[1])
            /\ seen' = DfsMarkSeen(seen, Top[1])
            /\ frames' = SetTop(1)
            /\ pc' = pc
  /\ UNCHANGED <<graph, root, bfsVars, topoVars, dijkstraVars, overflow_checks>>

\* Line 49: the recursive call on the next edge's node.
DfsRecurse ==
  /\ pc = "dfs"
  /\ Top[2] >= 1
  /\ Top[2] <= Len(edges[Top[1]])
  /\ frames' = Append(SetTop(Top[2] + 1), <<edges[Top[1]][Top[2]][1], 0>>)
  /\ UNCHANGED <<graph, pc, root, seen, calls, bfsVars, topoVars,
                 dijkstraVars, overflow_checks>>

\* Line 51: the for loop is over and the activation returns.
DfsReturn ==
  /\ pc = "dfs"
  /\ Top[2] > Len(edges[Top[1]])
  /\ frames' = Pop
  /\ pc' = IF Len(frames) = 1 THEN "done" ELSE "dfs"
  /\ UNCHANGED <<graph, root, seen, calls, bfsVars, topoVars, dijkstraVars,
                 overflow_checks>>

BuildDfs == Build(NodeNames, NoPayload, OneWeight)

NextDfs == BuildDfs \/ DfsStart \/ DfsEnter \/ DfsRecurse \/ DfsReturn

SpecDfs == Init /\ [][NextDfs]_vars

(***************************************************************************)
(* Node::traverse_breadth_first, with the three visitors the repository    *)
(* passes to it: print_edge, breadth_first_search's closure and            *)
(* dijkstra_find's closure.  An edge is <<name of edge.0, edge.1>>.        *)
(***************************************************************************)
\* HashMap::insert(k, v)
Insert(m, k, v) == [x \in DOMAIN m \cup {k} |-> IF x = k THEN v ELSE m[x]]

\* Line 58: the seed edge holds a copy (From<&Node<T>>) of the start node,
\* with the node's name, data and edges, and the weight 0.
SeedEdge(r) == <<r, 0>>

\* Lines 94-99 (the search's closure), 117-128 (print_edge) and 193-198
\* (dijkstra_find's closure): the ActResult of act(&edge).
ActResultOf(edge) ==
  IF caller = "search" /\ edge[1] = target THEN "Stop" ELSE "Ok"

\* The captured payload is the start node's, not the matching node's.
CapturedFromRoot(edge) == Some(data[Unwrap(root)])

\* Line 96: *found.borrow_mut() = Some(edge.0.borrow().data.clone())
Captured(edge) == Some(data[edge[1]])

\* The visitor's Stop is ignored.
StopsNever(r) == FALSE

\* Lines 65-67: `if let ActResult::Stop = res { return; }`
Stops(r) == r = "Stop"

\* seen.insert(node.name), line 68
BfsMarkSeen(s, name) == s \cup {name}

\* The edges are pushed at the front of the queue.
PushEdgesFront(q, name) == edges[name] \o q

\* Lines 69-71: stack.push_back(edge.clone()) for every edge of the node.
PushEdges(q, name) == q \o edges[name]

\* The front edge is read and left in the queue.
PeekFront(q) == q

\* Line 59: stack.pop_front() leaves the rest of the queue.
PopFront(q) == Tail(q)

\* Lines 57-58, with the HashSet::new() every caller passes as `seen`.
BfsEnter(r) ==
  /\ root' = Some(r)
  /\ stack' = <<SeedEdge(r)>>
  /\ seen' = {}
  /\ calls' = <<>>
  /\ res' = None
  /\ pc' = "bfs"

\* root.borrow().traverse_breadth_first(&print_edge, &mut HashSet::new())
BfsStart ==
  /\ pc = "build"
  /\ \E r \in Nodes : BfsEnter(r)
  /\ caller' = "print_edge"
  /\ UNCHANGED <<graph, frames, target, found, topoVars, dijkstraVars,
                 overflow_checks>>

\* breadth_first_search(root, target), lines 92-93
SearchStart ==
  /\ pc = "build"
  /\ \E r \in Nodes : BfsEnter(r)
  /\ \E t \in TargetNames : target' = t
  /\ caller' = "search"
  /\ found' = None
  /\ UNCHANGED <<graph, frames, topoVars, dijkstraVars, overflow_checks>>

\* Lines 59-63: the popped edge's node is in seen; continue.
BfsSkip ==
  /\ pc = "bfs"
  /\ stack # <<>>
  /\ Head(stack)[1] \in seen
  /\ stack' = PopFront(stack)
  /\ UNCHANGED <<graph, pc, root, seen, calls, frames, res, caller, target,
                 found, topoVars, dijkstraVars, overflow_checks>>

\* Lines 59-71: the popped edge's node is new; act(&edge), then return on
\* Stop, or mark the node and push its edges.
BfsVisit ==
  /\ pc = "bfs"
  /\ stack # <<>>
  /\ LET edge == Head(stack)
         name == edge[1]
         r == ActResultOf(edge)
     IN /\ name \notin seen
        /\ calls' = Append(calls, name)
        /\ res' = Some(r)
        /\ found' = IF caller = "search" /\ edge[1] = target
                      THEN Captured(edge)
                      ELSE found
        /\ IF caller = "dijkstra"
             THEN /\ costs' = Insert(costs, name, WeightMax)
                  /\ parents' = Insert(parents, name, None)
             ELSE UNCHANGED <<costs, parents>>
        /\ IF Stops(r)
             THEN /\ pc' = "returned"
                  /\ stack' = PopFront(stack)
                  /\ seen' = seen
             ELSE /\ pc' = pc
                  /\ seen' = BfsMarkSeen(seen, name)
                  /\ stack' = PushEdges(PopFront(stack), name)
  /\ UNCHANGED <<graph, root, frames, caller, target, topoVars, processed,
                 closest, cost, idx, new_cost, overflow_checks>>

\* Line 59: pop_front() gives None and the while loop ends.
BfsExit ==
  /\ pc = "bfs"
  /\ stack = <<>>
  /\ pc' = "returned"
  /\ UNCHANGED <<graph, root, seen, calls, frames, bfsVars, topoVars,
                 dijkstraVars, overflow_checks>>

\* Line 103, found.take(), and the return of the print_edge traversal: the
\* traversal's queue and seen-set are dropped with it.
BfsDone ==
  /\ pc = "returned"
  /\ caller \in {"search", "print_edge"}
  /\ pc' = "done"
  /\ stack' = <<>>
  /\ UNCHANGED <<graph, root, seen, calls, frames, res, caller, target, found,
                 topoVars, dijkstraVars, overflow_checks>>

BuildBfs == Build(NodeNames, NoPayload, TraversalWeights)
BuildSearch == Build(SearchNames, Payloads, OneWeight)

BfsSteps == BfsSkip \/ BfsVisit \/ BfsExit \/ BfsDone

NextBfs == BuildBfs \/ BfsStart \/ BfsSteps
NextSearch == BuildSearch \/ SearchStart \/ BfsSteps

\* A call runs to completion: nothing suspends the loop once it is entered.
SpecBfs == Init /\ [][NextBfs]_vars /\ WF_vars(BfsSteps)
SpecSearch == Init /\ [][NextSearch]_vars /\ WF_vars(BfsSteps)

(***************************************************************************)
(* depth_first_topological_sort and visit.  A frame <<name, i>> is one     *)
(* activation of visit, as for traverse_depth_first.  marked[name] is the  *)
(* bool of the map's value: FALSE temporary, TRUE permanent.               *)
(***************************************************************************)
\* The node is pushed at the back of sorted.
PushSortedBack(q, name) == Append(q, name)

\* Line 180: sorted.push_front(node)
PushSorted(q, name) == <<name>> \o q

\* Lines 132-136: the empty marked and sorted, and visit(root, ...).
TopoStart ==
  /\ pc = "build"
  /\ \E r \in Nodes :
       /\ root' = Some(r)
       /\ frames' = <<<<r, 0>>>>
  /\ marked' = <<>>
  /\ sorted' = <<>>
  /\ pc' = "visit"
  /\ UNCHANGED <<graph, seen, calls, bfsVars, dijkstraVars, overflow_checks>>

\* The node is marked permanent as soon as it is entered.
MarkPermanentAtOnce(m, name) == Insert(m, name, TRUE)

\* Line 172: marked.insert(node.name, (node.clone(), false))
MarkTemporary(m, name) == Insert(m, name, FALSE)

\* Lines 160-172: return on a permanent mark, panic on a temporary one,
\* otherwise mark the node temporary.
VisitEnter ==
  /\ pc = "visit"
  /\ Top[2] = 0
  /\ IF Top[1] \in DOMAIN marked
       THEN IF marked[Top[1]]
              THEN /\ frames' = Pop
                   /\ pc' = IF Len(frames) = 1 THEN "loop" ELSE "visit"
                   /\ UNCHANGED marked
              ELSE /\ pc' = "panic"
                   /\ UNCHANGED <<frames, marked>>
       ELSE /\ marked' = MarkTemporary(marked, Top[1])
            /\ frames' = SetTop(1)
            /\ pc' = pc
  /\ UNCHANGED <<graph, root, seen, calls, bfsVars, sorted, dijkstraVars,
                 overflow_checks>>

\* Line 175: visit(edge.0.clone(), marked, sorted) on the next edge.
VisitRecurse ==
  /\ pc = "visit"
  /\ Top[2] >= 1
  /\ Top[2] <= Len(edges[Top[1]])
  /\ frames' = Append(SetTop(Top[2] + 1), <<edges[Top[1]][Top[2]][1], 0>>)
  /\ UNCHANGED <<graph, pc, root, seen, calls, bfsVars, topoVars,
                 dijkstraVars, overflow_checks>>

\* Lines 178-180: mark the node permanent and put it in front of sorted.
VisitExit ==
  /\ pc = "visit"
  /\ Top[2] > Len(edges[Top[1]])
  /\ marked' = Insert(marked, Top[1], TRUE)
  /\ sorted' = PushSorted(sorted, Top[1])
  /\ frames' = Pop
  /\ pc' = IF Len(frames) = 1 THEN "loop" ELSE "visit"
  /\ UNCHANGED <<graph, root, seen, calls, bfsVars, dijkstraVars,
                 overflow_checks>>

\* Lines 137-152: visit any node marked temporary (the map's iteration
\* order decides which); with none left, return sorted.
TopoLoop ==
  /\ pc = "loop"
  /\ LET temporary == {n \in DOMAIN marked : ~marked[n]}
     IN IF temporary = {}
          THEN /\ pc' = "done"
               /\ UNCHANGED frames
          ELSE /\ \E n \in temporary : frames' = <<<<n, 0>>>>
               /\ pc' = "visit"
  /\ UNCHANGED <<graph, root, seen, calls, bfsVars, topoVars, dijkstraVars,
                 overflow_checks>>

BuildTopo == Build(NodeNames, NoPayload, OneWeight)

TopoSteps == VisitEnter \/ VisitRecurse \/ VisitExit \/ TopoLoop

NextTopo == BuildTopo \/ TopoStart \/ TopoSteps

\* The sort runs to completion once it is called.
SpecTopo == Init /\ [][NextTopo]_vars /\ WF_vars(TopoSteps)

(***************************************************************************)
(* dijkstra_find and find_closest_node.  Costs are u8 values; new_cost     *)
(* keeps the exact sum of the last addition, so that an overflow shows.    *)
(***************************************************************************)
\* Lines 230-237: the keys the scan can end on.  The scan keeps the first
\* key it meets with a cost below every cost before it, so it ends on a key
\* of least cost among the unprocessed keys whose cost is below Weight::MAX;
\* the HashMap's iteration order decides which of them.
ScanEnds(c, p) ==
  LET open == {k \in DOMAIN c : c[k] < WeightMax /\ k \notin p}
  IN {k \in open : \A j \in open : c[k] <= c[j]}

\* Lines 226-242: the Options find_closest_node can return.  With no key
\* kept, closest_node_name is still "", and "" is returned as None.
find_closest_node(c, p) ==
  LET ends == IF ScanEnds(c, p) = {} THEN {""} ELSE ScanEnds(c, p)
  IN {IF k = "" THEN None ELSE Some(k) : k \in ends}

\* Line 213: cost + edge.1 on u8 in a build without overflow checks.
WrappingAdd(a, b) == (a + b) % WeightModulus

\* Lines 187-192: the empty maps, and the traversal that fills them.
DijkstraStart ==
  /\ pc = "build"
  /\ \E r \in Nodes : BfsEnter(r)
  /\ caller' = "dijkstra"
  /\ processed' = {}
  /\ costs' = <<>>
  /\ parents' = <<>>
  /\ overflow_checks' \in BOOLEAN
  /\ UNCHANGED <<graph, frames, target, found, topoVars, closest, cost, idx,
                 new_cost>>

\* Line 201: costs.insert(root.name, 0), once the traversal has returned.
DijkstraRootCost ==
  /\ pc = "returned"
  /\ caller = "dijkstra"
  /\ costs' = Insert(costs, Unwrap(root), 0)
  /\ stack' = <<>>
  /\ pc' = "select"
  /\ UNCHANGED <<graph, root, seen, calls, frames, res, caller, target, found,
                 topoVars, processed, parents, closest, cost, idx, new_cost,
                 overflow_checks>>

\* Lines 207-210: the while let, the closest node's cost and its edges.
DijkstraSelect ==
  /\ pc = "select"
  /\ \E o \in find_closest_node(costs, processed) :
       /\ closest' = o
       /\ IF o = None
            THEN /\ pc' = "done"
                 /\ UNCHANGED <<cost, idx>>
            ELSE /\ pc' = "relax"
                 /\ cost' = costs[Unwrap(o)]
                 /\ idx' = 1
  /\ UNCHANGED <<graph, root, seen, calls, frames, bfsVars, topoVars,
                 processed, costs, parents, new_cost, overflow_checks>>

\* Lines 211-219: one turn of the for loop; the addition panics in a build
\* with overflow checks when the sum is above Weight::MAX.
DijkstraRelax ==
  /\ pc = "relax"
  /\ idx <= Len(edges[Unwrap(closest)])
  /\ LET edge == edges[Unwrap(closest)][idx]
         name == edge[1]
         sum == cost + edge[2]
         wrapped == WrappingAdd(cost, edge[2])
         old_cost == costs[name]
     IN /\ new_cost' = Some(sum)
        /\ IF sum > WeightMax /\ overflow_checks
             THEN /\ pc' = "panic"
                  /\ UNCHANGED <<costs, parents, idx>>
             ELSE /\ pc' = pc
                  /\ idx' = idx + 1
                  /\ IF old_cost > wrapped
                       THEN /\ costs' = Insert(costs, name, wrapped)
                            /\ parents' = Insert(parents, name, closest)
                       ELSE UNCHANGED <<costs, parents>>
  /\ UNCHANGED <<graph, root, seen, calls, frames, bfsVars, topoVars,
                 processed, closest, cost, overflow_checks>>

\* Line 220: processed.insert(closest_node.name), after the last edge.
DijkstraProcessed ==
  /\ pc = "relax"
  /\ idx > Len(edges[Unwrap(closest)])
  /\ processed' = processed \cup {Unwrap(closest)}
  /\ pc' = "select"
  /\ UNCHANGED <<graph, root, seen, calls, frames, bfsVars, topoVars, costs,
                 parents, closest, cost, idx, new_cost, overflow_checks>>

BuildDijkstra == Build(DijkstraNames, NoPayload, DijkstraWeights)

NextDijkstra ==
  \/ BuildDijkstra
  \/ DijkstraStart
  \/ BfsSkip
  \/ BfsVisit
  \/ BfsExit
  \/ DijkstraRootCost
  \/ DijkstraSelect
  \/ DijkstraRelax
  \/ DijkstraProcessed

SpecDijkstra == Init /\ [][NextDijkstra]_vars

(***************************************************************************)
(* What the claims speak of: the graph's reachability, hop counts, cycles  *)
(* and least path costs, defined on the graph alone.                       *)
(***************************************************************************)
Succ(n) == {edges[n][i][1] : i \in 1..Len(edges[n])}

\* The nodes at most k edges away from r.
RECURSIVE Ball(_, _)
Ball(r, k) ==
  IF k = 0 THEN {r}
  ELSE LET B == Ball(r, k - 1) IN B \cup UNION {Succ(n) : n \in B}

Reach(r) == Ball(r, Cardinality(Nodes))

Hops(r, v) ==
  CHOOSE k \in 0..Cardinality(Nodes) :
    v \in Ball(r, k) /\ (k = 0 \/ v \notin Ball(r, k - 1))

Cyclic(r) == \E n \in Reach(r) : n \in UNION {Reach(m) : m \in Succ(n)}

Count(q, x) == Cardinality({i \in 1..Len(q) : q[i] = x})

Pos(q, x) == CHOOSE i \in 1..Len(q) : q[i] = x

\* The total weights of the walks of at most k edges from r to v.
RECURSIVE WalkCosts(_, _, _)
WalkCosts(r, v, k) ==
  (IF v = r THEN {0} ELSE {}) \cup
  (IF k = 0 THEN {}
   ELSE UNION {{c + edges[u][i][2] : c \in WalkCosts(r, u, k - 1)} :
                 <<u, i>> \in {<<n, j>> \in Nodes \X (1..MaxEdges) :
                                 j <= Len(edges[n]) /\ edges[n][j][1] = v}})

\* The least total weight of a path from r to v, for v reachable from r.
MinCost(r, v) ==
  LET S == WalkCosts(r, v, Cardinality(Nodes) - 1)
  IN CHOOSE c \in S : \A d \in S : c <= d

Started == pc # "build"
Root == Unwrap(root)

(***************************************************************************)
(* The claims.                                                             *)
(***************************************************************************)
\* C1: traverse_depth_first, started with an empty seen-set, invokes the
\* visitor exactly once for each node reachable from the start and never
\* for another node: at no time more than once for a reachable node or at
\* all for another, and once for every reachable node when it has returned.
C1_DepthFirstVisitsEachReachableNodeOnce ==
  Started =>
    \A n \in Nodes :
      /\ Count(calls, n) <= (IF n \in Reach(Root) THEN 1 ELSE 0)
      /\ pc = "done" => Count(calls, n) = (IF n \in Reach(Root) THEN 1 ELSE 0)

\* A finished traversal of three nodes on a cycle, with a fourth node that
\* is not reachable.
C1_Witness ==
  /\ pc = "done"
  /\ Len(calls) = 3
  /\ Cyclic(Root)
  /\ Nodes # Reach(Root)

\* C2: breadth_first_search(root, name) returns None if and only if no node
\* named `name` is reachable from root, and otherwise Some of the payload of
\* the node with that name.
C2_SearchFindsExactlyTheReachable ==
  pc = "done" =>
    IF target \in Reach(Root) THEN found = Some(data[target])
    ELSE found = None

\* A search that found a node other than the root, whose payload is not the
\* root's.
C2_Witness ==
  /\ pc = "done"
  /\ found # None
  /\ target # Root
  /\ data[target] # data[Root]
  /\ Hops(Root, target) = 2

\* C3: on a graph whose part reachable from root is acyclic, the sequence
\* depth_first_topological_sort(root) returns holds every reachable node,
\* and for every edge u -> v between reachable nodes u is at an earlier
\* position than v.
C3_SortedPutsEveryEdgeForward ==
  (pc = "done" /\ ~Cyclic(Root)) =>
    \A u \in Reach(Root) :
      /\ Count(sorted, u) = 1
      /\ \A v \in Succ(u) : Count(sorted, v) = 1 /\ Pos(sorted, u) < Pos(sorted, v)

\* A returned order of three nodes, one of them with two predecessors.
C3_Witness ==
  /\ pc = "done"
  /\ Len(sorted) = 3
  /\ \E u1 \in Reach(Root), u2 \in Reach(Root) :
       u1 # u2 /\ Succ(u1) \cap Succ(u2) # {}

\* C4: depth_first_topological_sort(root) ends in the panic "not a DAG" on
\* every graph with a cycle reachable from root (a self-loop too) and never
\* returns an ordering there, and it panics only when there is such a cycle.
C4_PanicsExactlyOnCycles ==
  /\ [](pc = "panic" => Cyclic(Root))
  /\ [](pc = "done" => ~Cyclic(Root))
  /\ (pc = "visit" /\ Cyclic(Root)) ~> (pc = "panic")

\* The panic on a self-loop of a node that is not the root.
C4_Witness ==
  /\ pc = "panic"
  /\ \E n \in Reach(Root) : n # Root /\ n \in Succ(n)

\* C5: dijkstra_find(root) returns a map with cost(root) = 0 and, for every
\* node v reachable from root, cost(v) the least total edge weight of the
\* paths from root to v.
C5_CostsAreLeastPathCosts ==
  (pc = "done" /\ caller = "dijkstra") =>
    /\ DOMAIN costs = Reach(Root)
    /\ costs[Root] = 0
    /\ \A v \in Reach(Root) : costs[v] = MinCost(Root, v)

\* C6: the loop of traverse_breadth_first that breadth_first_search runs
\* empties its queue or stops: the call, once made, returns.
C6_SearchTerminates == (pc = "bfs") ~> (pc = "done")

\* A returned search for a name that is not reachable, over a graph with a
\* cycle and with two equal edges.
C6_Witness ==
  /\ pc = "done"
  /\ caller = "search"
  /\ found = None
  /\ Cyclic(Root)
  /\ \E n \in Nodes : Len(edges[n]) = 2 /\ edges[n][1] = edges[n][2]

\* C7: with a visitor that always returns Ok, the nodes passed to the
\* visitor come in non-decreasing hop count from the start node, whatever
\* the weights, and no node is passed twice.
C7_VisitsInHopOrder ==
  (Started /\ caller = "print_edge") =>
    /\ \A i \in 1..Len(calls), j \in 1..Len(calls) :
         i < j => /\ calls[i] # calls[j]
                  /\ Hops(Root, calls[i]) <= Hops(Root, calls[j])
    /\ \A i \in 1..Len(calls) : calls[i] \in Reach(Root)

\* A finished traversal of four nodes, two of them one hop away and one two
\* hops away, over edges of different weights.
C7_Witness ==
  /\ pc = "done"
  /\ caller = "print_edge"
  /\ Len(calls) = 4
  /\ Hops(Root, calls[2]) = 1
  /\ Hops(Root, calls[3]) = 1
  /\ Hops(Root, calls[4]) = 2
  /\ \E n \in Nodes : Len(edges[n]) = 2 /\ edges[n][1][2] # edges[n][2][2]

\* C8: once the visitor returns Stop for an edge, traverse_breadth_first
\* returns at once: the node the edge leads to is not put in seen, nothing
\* is pushed on the queue, and the visitor is not invoked again.
C8_StopEndsTheTraversal ==
  [][/\ (res # Some("Stop") /\ res' = Some("Stop")) =>
          /\ seen' = seen
          /\ stack' = Tail(stack)
          /\ pc' = "returned"
     /\ res = Some("Stop") =>
          /\ calls' = calls
          /\ seen' = seen
          /\ pc' # "bfs"]_vars

\* The traversal stopped on a node that has edges, with edges left in the
\* queue.
C8_Witness ==
  /\ pc = "returned"
  /\ res = Some("Stop")
  /\ stack # <<>>
  /\ edges[target] # <<>>
  /\ target \notin seen

\* C9: when find_closest_node returns None, and dijkstra_find's loop stops,
\* every key of the cost map is in the processed set.
C9_LoopStopsWithEveryNodeProcessed ==
  (pc = "done" /\ caller = "dijkstra") => DOMAIN costs \subseteq processed

\* C10: when the least path cost of every node reachable from the start is
\* at most 254, every cost + edge.1 that dijkstra_find computes is within
\* the u8 range 0..255.
C10_NoOverflowWhenLeastCostsFit ==
  (Started /\ caller = "dijkstra" /\ new_cost # None
     /\ \A v \in Reach(Root) : MinCost(Root, v) <= WeightMax - 1) =>
    Unwrap(new_cost) \in 0..WeightMax

====
